---- MODULE Spec2Model ----
(***************************************************************************)
(* A model of views/research_brand.py:                                     *)
(*   - generate_due_diligence_report_stream, the aggregator of streamed    *)
(*     generation events, run on a worker thread and polled by the page    *)
(*     script (specification SpecStream);                                  *)
(*   - md_to_pdf, the markdown to PDF converter (specification SpecPdf).   *)
(* Text handled by the aggregator is modelled with TLA+ strings; text      *)
(* handled by md_to_pdf is a sequence of code points, so that decoding,    *)
(* transcoding, stripping, splitting and the regular expressions are       *)
(* computed character by character.                                        *)
(***************************************************************************)
EXTENDS Integers, Sequences, FiniteSets, TLC

VARIABLES
  \* ---- generate_due_diligence_report_stream (worker thread) ----
  rerunBuild,   \* what st.experimental_rerun() does in the installed Streamlit
  spc,          \* position of the worker: "create", "loop", "done"
  delivered,    \* the events the stream has yielded so far, in arrival order
  chunks,       \* the local list `chunks`
  partial,      \* st.session_state.partial, as a sequence: <<>> unset, <<s>> set
  published,    \* every value assigned to st.session_state.partial, in order
  sresult,      \* how the call ended: [kind, value]
  fault,        \* the failure the event source or an event raised, "" if none
  \* ---- page script (primary thread) ----
  mpc,          \* "poll", "shown", "crashed"
  prog,         \* text of the progress bar
  report_md,    \* the value of future.result(), as a sequence: <<>> or <<s>>
  \* ---- md_to_pdf ----
  arg,          \* the argument of the call: [type, data]
  md,           \* the parameter `md`, rebound at lines 206, 210 and 223
  ppc,          \* position: "validate", "transcode", "setup", "split", "loop",
                \* "output", "done"
  font_name,    \* the local `font_name`
  lines,        \* the local `lines`
  line_num,     \* how many lines the loop has gone through
  canvas,       \* the canvas and the messages logged: [ops, font, x, log]
  blocks,       \* the block each line gone through was classified as
  presult,      \* how the call ended: [kind, value]
  env           \* what the environment did: [faults, setup, bad_lines, output]

svars == <<rerunBuild, spc, delivered, chunks, partial, published, sresult,
           fault, mpc, prog, report_md>>
pvars == <<arg, md, ppc, font_name, lines, line_num, canvas, blocks, presult,
           env>>
vars  == <<svars, pvars>>

(***************************************************************************)
(* Bounds of the aggregator's inputs.                                      *)
(***************************************************************************)
\* The longest event sequence the source delivers.
MaxEvents == 21
\* At most this many delivered events differ from the plain text event
\* ItemAdded("a"); the others are that event.
MaxVaried == 2

\* `len(chunks) % 20 == 0`
PreviewEvery == 20

(***************************************************************************)
(* Generation events.  An event is probed for three optional attributes;   *)
(* an absent attribute and an attribute that is None are the same to       *)
(* getattr(ev, name, None), and so are a content of None and an empty      *)
(* content list to the truth test.                                         *)
(***************************************************************************)
Part(t)      == [hasText |-> TRUE, text |-> t]
\* a content element without a .text attribute
BadPart      == [hasText |-> FALSE, text |-> ""]
NoObj        == [present |-> FALSE, content |-> <<>>]
Obj(c)       == [present |-> TRUE, content |-> c]
NoResp       == [present |-> FALSE, output |-> <<>>]
Resp(out)    == [present |-> TRUE, output |-> out]
Ev(r, i, d)  == [response |-> r, item |-> i, delta |-> d]

ItemAdded(t)       == Ev(NoResp, Obj(<<Part(t)>>), NoObj)
ItemDelta(t)       == Ev(NoResp, NoObj, Obj(<<Part(t)>>))
Other              == Ev(NoResp, NoObj, NoObj)
ResponseCreated(o) == Ev(Resp(o), NoObj, NoObj)

\* The plain text event that fills the event sequence.
Filler == ItemAdded("a")

\* The events that may appear among the fillers.
VariedEvents ==
  { Other,
    ItemDelta("c"),
    ResponseCreated(<<Obj(<<Part("b")>>), Obj(<<Part("d"), Part("b")>>)>>),
    \* a response with an empty output list, and an item with content
    Ev(Resp(<<>>), Obj(<<Part("b")>>), NoObj),
    \* a response whose last output item has no content, and a delta
    Ev(Resp(<<Obj(<<>>)>>), NoObj, Obj(<<Part("c")>>)),
    \* an item whose text is empty
    ItemAdded(""),
    \* an item whose first content element has no text
    Ev(NoResp, Obj(<<BadPart>>), NoObj) }

Events == {Filler} \cup VariedEvents

NVaried(evs) == Cardinality({i \in DOMAIN evs : evs[i] # Filler})

(***************************************************************************)
(* Text extraction, lines 126-140.  The result is [kind, text]:            *)
(* "text" (a string was assigned to `text`), "none" (`text` stayed None)   *)
(* or "raise" (reading .text raised AttributeError).                       *)
(***************************************************************************)
TextOf(part) == IF part.hasText THEN [kind |-> "text", text |-> part.text]
                ELSE [kind |-> "raise", text |-> "AttributeError"]
NoText == [kind |-> "none", text |-> ""]

Truthy(obj) == obj.present /\ obj.content # <<>>
Last(s) == s[Len(s)]

ExtractText(ev) ==
  IF ev.response.present
    THEN LET out == ev.response.output IN
         IF out # <<>> /\ Last(out).content # <<>>
           THEN TextOf(Last(out).content[1])
           ELSE NoText
  ELSE IF Truthy(ev.item)  THEN TextOf(ev.item.content[1])
  ELSE IF Truthy(ev.delta) THEN TextOf(ev.delta.content[1])
  ELSE NoText

\* "".join(chunks)
RECURSIVE Join(_)
Join(cs) == IF cs = <<>> THEN "" ELSE cs[1] \o Join(Tail(cs))

\* The two f-strings of lines 155 and 157.  Each starts with an emoji (a cross
\* mark, a warning sign), written here as the ASCII tags <x> and <!>.
OpenAIErrorPrefix     == "<x> **OpenAI error:** "
UnexpectedErrorPrefix == "<!> **Unexpected error:** "
OpenAIErrorText(e)     == OpenAIErrorPrefix \o e
UnexpectedErrorText(e) == UnexpectedErrorPrefix \o e

\* str(e) of the failures the model injects
ErrorMessages == {"Connection error.", "boom", "AttributeError",
                  "module 'streamlit' has no attribute 'experimental_rerun'"}

Returned(s) == [kind |-> "return", value |-> s]
Raised(x)   == [kind |-> "raise", value |-> x]
NotEnded    == [kind |-> "none", value |-> ""]

(***************************************************************************)
(* st.experimental_rerun(), line 150.  Streamlit is not part of the        *)
(* repository, and what the call does depends on the installed release     *)
(* and on the calling thread:                                              *)
(*   "RerunException"  it raises the script-control exception, which       *)
(*                     derives from BaseException (the documented          *)
(*                     behaviour: the call never returns);                 *)
(*   "AttributeError"  the attribute has been removed from the package;    *)
(*   "noop"            the call finds no script-run context on the worker  *)
(*                     thread and returns.                                 *)
(***************************************************************************)
RerunBuilds == {"RerunException", "AttributeError", "noop"}

SStart(builds) ==
  /\ rerunBuild \in builds
  /\ spc = "create"
  /\ delivered = <<>>
  /\ chunks = <<>>
  /\ partial = <<>>
  /\ published = <<>>
  /\ sresult = NotEnded
  /\ fault = ""
  /\ mpc = "poll"
  /\ prog = "Initializing"
  /\ report_md = <<>>

Finish(res) == /\ spc' = "done"
               /\ sresult' = res

\* lines 107-123: client.responses.create(...) returns the stream
CreateStream ==
  /\ UNCHANGED pvars
  /\ spc = "create"
  /\ spc' = "loop"
  /\ UNCHANGED <<rerunBuild, delivered, chunks, partial, published, sresult,
                 fault, mpc, prog, report_md>>

\* lines 107-123 raising, caught at lines 154-157
CreateFails ==
  /\ UNCHANGED pvars
  /\ spc = "create"
  /\ \E f \in {"OpenAIError", "Exception"} :
       /\ fault' = f
       /\ Finish(Returned(IF f = "OpenAIError"
                            THEN OpenAIErrorText("Connection error.")
                            ELSE UnexpectedErrorText("boom")))
  /\ UNCHANGED <<rerunBuild, delivered, chunks, partial, published,
                 mpc, prog, report_md>>

\* The state after one pass of the loop body on `ev`, lines 126-150.
AfterAppend(cs) ==
  IF Len(cs) % PreviewEvery = 0
    THEN [partial |-> <<Join(cs)>>,
          published |-> Append(published, Join(cs)),
          end |-> CASE rerunBuild = "RerunException" -> Raised("RerunException")
                    [] rerunBuild = "AttributeError" ->
                         Returned(UnexpectedErrorText(
                           "module 'streamlit' has no attribute 'experimental_rerun'"))
                    [] OTHER -> NotEnded]
    ELSE [partial |-> partial, published |-> published, end |-> NotEnded]

\* lines 125-150: the stream yields `ev` and the loop body runs on it
ConsumeEvent ==
  /\ UNCHANGED pvars
  /\ spc = "loop"
  /\ Len(delivered) < MaxEvents
  /\ \E ev \in Events :
       /\ NVaried(Append(delivered, ev)) <= MaxVaried
       /\ delivered' = Append(delivered, ev)
       /\ LET x == ExtractText(ev) IN
          CASE x.kind = "raise" ->
                 /\ fault' = "Extract"
                 /\ Finish(Returned(UnexpectedErrorText(x.text)))
                 /\ UNCHANGED <<chunks, partial, published>>
            [] x.kind = "text" /\ x.text # "" ->
                 LET a == AfterAppend(Append(chunks, x.text)) IN
                 /\ chunks' = Append(chunks, x.text)
                 /\ partial' = a.partial
                 /\ published' = a.published
                 /\ fault' = fault
                 /\ IF a.end = NotEnded THEN UNCHANGED <<spc, sresult>>
                                        ELSE Finish(a.end)
            [] OTHER ->
                 UNCHANGED <<chunks, partial, published, fault, spc, sresult>>
  /\ UNCHANGED <<rerunBuild, mpc, prog, report_md>>

\* line 152: the stream is exhausted
StreamEnds ==
  /\ UNCHANGED pvars
  /\ spc = "loop"
  /\ Finish(Returned(Join(chunks)))
  /\ UNCHANGED <<rerunBuild, delivered, chunks, partial, published, fault,
                 mpc, prog, report_md>>

\* line 125 raising while the stream is iterated, caught at lines 154-157
StreamFails ==
  /\ UNCHANGED pvars
  /\ spc = "loop"
  /\ \E f \in {"OpenAIError", "Exception"} :
       /\ fault' = f
       /\ Finish(Returned(IF f = "OpenAIError"
                            THEN OpenAIErrorText("Connection error.")
                            ELSE UnexpectedErrorText("boom")))
  /\ UNCHANGED <<rerunBuild, delivered, chunks, partial, published,
                 mpc, prog, report_md>>

\* lines 440-448: future.done() is false, the progress bar is redrawn
PollRunning ==
  /\ UNCHANGED pvars
  /\ mpc = "poll"
  /\ spc # "done"
  /\ prog' = "Running"
  /\ UNCHANGED <<rerunBuild, spc, delivered, chunks, partial, published,
                 sresult, fault, mpc, report_md>>

\* lines 440, 450-451: future.done() is true; future.result() returns the
\* worker's value or raises what the worker raised
PollDone ==
  /\ UNCHANGED pvars
  /\ mpc = "poll"
  /\ spc = "done"
  /\ IF sresult.kind = "return"
       THEN /\ report_md' = <<sresult.value>>
            /\ prog' = "Complete!"
            /\ mpc' = "shown"
       ELSE /\ mpc' = "crashed"
            /\ UNCHANGED <<report_md, prog>>
  /\ UNCHANGED <<rerunBuild, spc, delivered, chunks, partial, published,
                 sresult, fault>>

SNext == \/ CreateStream \/ CreateFails \/ ConsumeEvent \/ StreamEnds
         \/ StreamFails \/ PollRunning \/ PollDone


(***************************************************************************)
(*                              md_to_pdf                                  *)
(*                                                                         *)
(* Text is a sequence of code points; bytes are a sequence of 0..255.      *)
(***************************************************************************)
\* characters the code names: '#', the bullet markers, the bullet glyph
HASH     == 35
DASH     == 45
STAR     == 42
PLUS     == 43
BULLET   == 8226
\* U+FFFD, what decode(errors="replace") substitutes
REPLACEMENT == 65533
\* the highest code point latin-1 encodes
LATIN1_MAX == 255
\* `len(line) > 10000`, `h.group(2)[:200]`, `text[:1000]`
LONG_LINE_LIMIT == 10000
TITLE_LIMIT     == 200
FALLBACK_LIMIT  == 1000

\* str.isspace() and the regular expression class \s, below U+0100
WhiteSpace == {9, 10, 11, 12, 13, 28, 29, 30, 31, 32, 133, 160}
\* the line boundaries of str.splitlines(), below U+0100
LineBreaks == {10, 11, 12, 13, 28, 29, 30, 133}

IsBlank(s) == \A i \in DOMAIN s : s[i] \in WhiteSpace

Max(a, b) == IF a >= b THEN a ELSE b
Min(a, b) == IF a <= b THEN a ELSE b

\* str.rstrip()
RECURSIVE RStrip(_)
RStrip(s) == IF s = <<>> \/ s[Len(s)] \notin WhiteSpace THEN s
             ELSE RStrip(SubSeq(s, 1, Len(s) - 1))

\* A string is scanned SCAN_BLOCK characters at a time.
SCAN_BLOCK == 64

\* the scan of s stops at j: j is past the end of s, or (s[j] \in set) = inside
Stops(s, j, set, inside) == j > Len(s) \/ (s[j] \in set) = inside

\* the first index at or after i where the scan of s stops
RECURSIVE Scan(_, _, _, _)
Scan(s, i, set, inside) ==
  IF \E j \in i..(i + SCAN_BLOCK - 1) : Stops(s, j, set, inside)
    THEN CHOOSE j \in i..(i + SCAN_BLOCK - 1) :
           /\ Stops(s, j, set, inside)
           /\ \A k \in i..(j - 1) : ~Stops(s, k, set, inside)
    ELSE Scan(s, i + SCAN_BLOCK, set, inside)

\* the index of the first character of s at or after i that is not in `set`
\* (Len(s) + 1 if there is none)
SkipWhile(s, i, set) == Scan(s, i, set, FALSE)

\* the index of the first character of s at or after i that is in `set`
SkipUntil(s, i, set) == Scan(s, i, set, TRUE)

\* str.splitlines(): "\r\n" is one boundary, and a final boundary opens no
\* further line.
SplitLines(s) ==
  LET n   == Len(s)
      \* positions of the last character of a boundary
      ends == {i \in 1..n : /\ s[i] \in LineBreaks
                            /\ ~(s[i] = 13 /\ i < n /\ s[i + 1] = 10)}
      m   == Cardinality(ends)
      endK(k)  == CHOOSE e \in ends : Cardinality({x \in ends : x <= e}) = k
      first(e) == IF s[e] = 10 /\ e > 1 /\ s[e - 1] = 13 THEN e - 1 ELSE e
      count == IF n > 0 /\ n \notin ends THEN m + 1 ELSE m
      start(k) == IF k = 1 THEN 1 ELSE endK(k - 1) + 1
      stop(k)  == IF k <= m THEN first(endK(k)) - 1 ELSE n
  IN [k \in 1..count |-> SubSeq(s, start(k), stop(k))]

(***************************************************************************)
(* bytes.decode("utf-8"), line 206, and bytes.decode("utf-8",              *)
(* errors="replace"), line 210.  DecodeFrom gives the code points of       *)
(* b[i..], an ill-formed subsequence giving one REPLACEMENT.               *)
(***************************************************************************)
IsCont(b, i, lo, hi) == i <= Len(b) /\ b[i] >= lo /\ b[i] <= hi

\* the number of continuation bytes of lead byte x (-1: not a lead byte)
Need(x) == CASE x < 128 -> 0
             [] x >= 194 /\ x <= 223 -> 1
             [] x >= 224 /\ x <= 239 -> 2
             [] x >= 240 /\ x <= 244 -> 3
             [] OTHER -> -1

\* the range of the first continuation byte after lead byte x
Lo2(x) == CASE x = 224 -> 160 [] x = 240 -> 144 [] OTHER -> 128
Hi2(x) == CASE x = 237 -> 159 [] x = 244 -> 143 [] OTHER -> 191

\* how many of the continuation bytes lead byte b[i] needs are there
Have(b, i) ==
  LET x == b[i] IN
  IF Need(x) < 1 \/ ~IsCont(b, i + 1, Lo2(x), Hi2(x)) THEN 0
  ELSE IF Need(x) = 1 \/ ~IsCont(b, i + 2, 128, 191) THEN 1
  ELSE IF Need(x) = 2 \/ ~IsCont(b, i + 3, 128, 191) THEN 2
  ELSE 3

CodePoint(b, i) ==
  LET x == b[i] IN
  CASE Need(x) = 0 -> x
    [] Need(x) = 1 -> (x - 192) * 64 + (b[i + 1] - 128)
    [] Need(x) = 2 -> (x - 224) * 4096 + (b[i + 1] - 128) * 64 + (b[i + 2] - 128)
    [] OTHER -> (x - 240) * 262144 + (b[i + 1] - 128) * 4096
                  + (b[i + 2] - 128) * 64 + (b[i + 3] - 128)

WellFormedAt(b, i) == Need(b[i]) >= 0 /\ Have(b, i) = Need(b[i])

RECURSIVE DecodeFrom(_, _)
DecodeFrom(b, i) ==
  IF i > Len(b) THEN <<>>
  ELSE IF WellFormedAt(b, i)
         THEN <<CodePoint(b, i)>> \o DecodeFrom(b, i + 1 + Need(b[i]))
         ELSE <<REPLACEMENT>> \o DecodeFrom(b, i + 1 + Have(b, i))

\* no UnicodeDecodeError
RECURSIVE ValidUtf8From(_, _)
ValidUtf8From(b, i) ==
  IF i > Len(b) THEN TRUE
  ELSE WellFormedAt(b, i) /\ ValidUtf8From(b, i + 1 + Need(b[i]))

\* md.encode("latin-1", "ignore").decode("latin-1"), line 223
ToLatin1(s) == SelectSeq(s, LAMBDA c : c <= LATIN1_MAX)

(***************************************************************************)
(* The canvas.  `st` is the state one conversion owns:                     *)
(*   ops   what has been written to the FPDF object, in order;             *)
(*   font  the current [style, size];                                      *)
(*   x     the abscissa, in user units from the left margin;               *)
(*   log   the messages st.warning / st.error (or logging) received.       *)
(* An operation gives [st, exc]: the state it leaves and the exception it  *)
(* raised ("" if none).  `bad` is the set of FPDF methods that raise when  *)
(* called: FPDF is not part of the repository, and the code guards each    *)
(* call against its failure.                                               *)
(***************************************************************************)
Ok(st)       == [st |-> st, exc |-> ""]
Exc(st, e)   == [st |-> st, exc |-> e]
Then(r, F(_)) == IF r.exc = "" THEN F(r.st) ELSE r

FpdfMethods == {"set_font", "multi_cell", "ln", "cell", "set_x",
                "get_string_width"}

\* The module reads the global HAS_STREAMLIT (lines 186, 193) and binds it
\* nowhere: no import, assignment or definition of the file gives the name
\* a value, so reading it raises NameError.
HAS_STREAMLIT_IsBound == FALSE

\* _log_warning(msg) and _log_error(msg), lines 184-196
LogWarning(st, msg, n) ==
  IF HAS_STREAMLIT_IsBound
    THEN Ok([st EXCEPT !.log = Append(@, [level |-> "warning", msg |-> msg, n |-> n])])
    ELSE Exc(st, "NameError")
LogError(st, msg, n) ==
  IF HAS_STREAMLIT_IsBound
    THEN Ok([st EXCEPT !.log = Append(@, [level |-> "error", msg |-> msg, n |-> n])])
    ELSE Exc(st, "NameError")

SetFont(st, bad, style, size) ==
  IF "set_font" \in bad THEN Exc(st, "FPDFException")
  ELSE Ok([st EXCEPT !.font = [style |-> style, size |-> size]])
MultiCell(st, bad, w, h, txt) ==
  IF "multi_cell" \in bad THEN Exc(st, "FPDFException")
  ELSE Ok([st EXCEPT !.ops = Append(@, [op |-> "multi_cell", w |-> w, h |-> h,
                                         x |-> st.x, txt |-> txt,
                                         font |-> st.font]),
                     !.x = 0])
Ln(st, bad, h) ==
  IF "ln" \in bad THEN Exc(st, "FPDFException")
  ELSE Ok([st EXCEPT !.ops = Append(@, [op |-> "ln", w |-> 0, h |-> h, x |-> st.x,
                                         txt |-> <<>>, font |-> st.font]),
                     !.x = 0])
Cell(st, bad, w, h, txt) ==
  IF "cell" \in bad THEN Exc(st, "FPDFException")
  ELSE Ok([st EXCEPT !.ops = Append(@, [op |-> "cell", w |-> w, h |-> h,
                                         x |-> st.x, txt |-> txt,
                                         font |-> st.font]),
                     !.x = st.x + w])
SetX(st, bad, x) ==
  IF "set_x" \in bad THEN Exc(st, "FPDFException")
  ELSE Ok([st EXCEPT !.x = x])

(***************************************************************************)
(* pdf.get_string_width.  Widths are those of the Helvetica core font, in  *)
(* thousandths of the font size, for the characters the inputs use (any    *)
(* other character takes the width of a lower-case letter).  A width in    *)
(* user units (mm) is sum * size * 25.4 / 72000; the comparisons below     *)
(* are made on integers, both sides multiplied by 720000.                  *)
(***************************************************************************)
CharWidth(c) == CASE c = 32 -> 278 [] c = HASH -> 556 [] c = STAR -> 389
                  [] c = PLUS -> 584 [] c = DASH -> 333 [] OTHER -> 556

\* the widths of the characters of s, added up character value by character
\* value: cs is the set of the values still to add
RECURSIVE SumOver(_, _)
SumOver(s, cs) ==
  IF cs = {} THEN 0
  ELSE LET c == CHOOSE x \in cs : TRUE IN
       CharWidth(c) * Cardinality({ i \in DOMAIN s : s[i] = c })
         + SumOver(s, cs \ {c})

SumWidths(s) == SumOver(s, { s[i] : i \in DOMAIN s })

\* 720000 * pdf.get_string_width(s) in the font `font`
StringWidth(s, font) == SumWidths(s) * font.size * 254
\* 720000 * a width given in user units
Units(w) == w * 720000

\* pdf.w - pdf.l_margin - pdf.r_margin for FPDF's defaults (A4, 10 mm margins)
FULL_WIDTH == 190

\* str.split(): the maximal runs of non-whitespace characters
RECURSIVE SplitFrom(_, _)
SplitFrom(s, i) ==
  LET a == SkipWhile(s, i, WhiteSpace) IN
  IF a > Len(s) THEN <<>>
  ELSE LET b == SkipUntil(s, a, WhiteSpace) IN
       <<SubSeq(s, a, b - 1)>> \o SplitFrom(s, b)
Split(s) == SplitFrom(s, 1)

\* " ".join(parts)
RECURSIVE JoinSpace(_)
JoinSpace(ps) == IF ps = <<>> THEN <<>>
                 ELSE IF Len(ps) = 1 THEN ps[1]
                 ELSE ps[1] \o <<32>> \o JoinSpace(Tail(ps))

\* split_long_word, lines 263-285.  The loop of lines 270-278 closes the
\* chunk that starts at character i before the first character with which it
\* would be wider than the column; a chunk always takes its first character.
\* ChunkEnd: the index of the last character of the chunk word[i..j], whose
\* characters' widths sum to `sum`, grown as far as the loop grows it.
RECURSIVE ChunkEnd(_, _, _, _, _)
ChunkEnd(word, j, sum, col, font) ==
  IF j = Len(word) THEN j
  ELSE LET w == sum + CharWidth(word[j + 1]) IN
       IF w * font.size * 254 > Units(col) THEN j
       ELSE ChunkEnd(word, j + 1, w, col, font)

\* the chunks of word[i..]
RECURSIVE SplitLoop(_, _, _, _)
SplitLoop(word, i, col, font) ==
  IF i > Len(word) THEN <<>>
  ELSE LET e == ChunkEnd(word, i, CharWidth(word[i]), col, font) IN
       <<SubSeq(word, i, e)>> \o SplitLoop(word, e + 1, col, font)

\* a word that is kept whole
KeepWord(word, col, font) == IF word # <<>> THEN <<word>> ELSE <<>>
SplitLongWord(word, col, font) ==
  IF word = <<>> \/ col <= 0 THEN (IF word # <<>> THEN <<word>> ELSE <<>>)
  ELSE LET parts == SplitLoop(word, 1, col, font) IN
       IF parts # <<>> THEN parts ELSE <<word>>

\* lines 300-317: safe_parts of the tokens from index i on
RECURSIVE SafeParts(_, _, _, _)
SafeParts(tokens, i, col, font) ==
  IF i > Len(tokens) THEN <<>>
  ELSE (IF StringWidth(tokens[i], font) > Units(col)
          THEN SplitLongWord(tokens[i], col, font)
          ELSE <<tokens[i]>>) \o SafeParts(tokens, i + 1, col, font)

\* lines 315-317 for the tokens from index i on, when measuring raises: one
\* warning per token, and a warning that raises leaves the loop
RECURSIVE WarnTokens(_, _, _)
WarnTokens(st, tokens, i) ==
  IF i > Len(tokens) THEN Ok(st)
  ELSE Then(LogWarning(st, "Error processing token", 0),
            LAMBDA s1 : WarnTokens(s1, tokens, i + 1))

\* write_wrapped(text, indent_level), lines 287-330
WriteWrapped(st, bad, text, indent_level) ==
  IF text = <<>> THEN Ok(st)
  ELSE
    LET indent_pt == Max(0, indent_level * 4)
        col_width == Max(10, FULL_WIDTH - indent_pt)
        tokens    == Split(text)
        \* lines 300-317: when measuring a token raises, the handler of line
        \* 315 warns and keeps the token
        measured ==
          IF "get_string_width" \in bad THEN WarnTokens(st, tokens, 1)
                                        ELSE Ok(st)
        safe_parts ==
          IF "get_string_width" \in bad THEN tokens
          ELSE SafeParts(tokens, 1, col_width, st.font)
        \* lines 319-322
        written ==
          Then(measured, LAMBDA s1 :
            IF safe_parts = <<>> THEN Ok(s1)
            ELSE Then(SetX(s1, bad, indent_pt), LAMBDA s2 :
                   MultiCell(s2, bad, col_width, 6, JoinSpace(safe_parts))))
    IN IF written.exc = "" THEN written
       ELSE \* lines 324-330
         Then(LogError(written.st, "Error writing wrapped text", 0), LAMBDA s3 :
           LET fb == MultiCell(s3, bad, 0, 6,
                               SubSeq(text, 1, Min(Len(text), FALLBACK_LIMIT)))
           IN Ok(fb.st))

(***************************************************************************)
(* Line classification, lines 346-385.                                     *)
(***************************************************************************)
\* `#{1,6}` and `min(len(h.group(1)), 3)`
MAX_HASHES == 6
MAX_LEVEL  == 3
\* the body font size, lines 236 and 357
BODY_SIZE  == 11

\* size_map, line 352
SizeMap(level) == CASE level = 1 -> 16 [] level = 2 -> 14 [] OTHER -> 12

BulletMarkers == {DASH, STAR, PLUS}

\* the match of a pattern that takes `#{1,3}` only
HeadingMatchUpTo3(line) ==
  LET n == SkipWhile(line, 1, {HASH}) - 1 IN
  IF n >= 1 /\ n <= MAX_LEVEL /\ n < Len(line) /\ line[n + 1] \in WhiteSpace
    THEN [ok |-> TRUE, hashes |-> n,
          text |-> SubSeq(line, SkipWhile(line, n + 1, WhiteSpace), Len(line))]
    ELSE [ok |-> FALSE, hashes |-> 0, text |-> <<>>]
\* re.match(r"^(#{1,6})\s+(.*)$", line): [ok, hashes, title].  The hashes are
\* matched greedily, then at least one whitespace character, all of the
\* whitespace run is consumed, and the rest is group 2.
HeadingMatch(line) ==
  LET n == SkipWhile(line, 1, {HASH}) - 1 IN
  IF n >= 1 /\ n <= MAX_HASHES /\ n < Len(line) /\ line[n + 1] \in WhiteSpace
    THEN [ok |-> TRUE, hashes |-> n,
          text |-> SubSeq(line, SkipWhile(line, n + 1, WhiteSpace), Len(line))]
    ELSE [ok |-> FALSE, hashes |-> 0, text |-> <<>>]

\* re.match(r"^\s*[-*+]\s+(.*)$", line): [ok, text]
BulletMatch(line) ==
  LET i == SkipWhile(line, 1, WhiteSpace) IN
  IF /\ i < Len(line)
     /\ line[i] \in BulletMarkers
     /\ line[i + 1] \in WhiteSpace
    THEN [ok |-> TRUE,
          text |-> SubSeq(line, SkipWhile(line, i + 1, WhiteSpace), Len(line))]
    ELSE [ok |-> FALSE, text |-> <<>>]

\* level and title of a heading line, lines 349-350
HeadingLevel(h) == Min(h.hashes, MAX_LEVEL)
HeadingTitle(h) == SubSeq(h.text, 1, Min(Len(h.text), TITLE_LIMIT))

\* The block a raw line is laid out as: the branch lines 339-385 take.
ClassifyLine(line, h, b) ==
     CASE Len(line) > LONG_LINE_LIMIT ->
            [kind |-> "skipped", size |-> 0, text |-> <<>>]
       [] Len(line) <= LONG_LINE_LIMIT /\ h.ok ->
            [kind |-> "heading", size |-> SizeMap(HeadingLevel(h)),
             text |-> HeadingTitle(h)]
       [] Len(line) <= LONG_LINE_LIMIT /\ ~h.ok /\ b.ok ->
            [kind |-> "bullet", size |-> BODY_SIZE, text |-> b.text]
       [] Len(line) <= LONG_LINE_LIMIT /\ ~h.ok /\ ~b.ok /\ IsBlank(line) ->
            [kind |-> "blank", size |-> BODY_SIZE, text |-> <<>>]
       [] OTHER ->
            [kind |-> "paragraph", size |-> BODY_SIZE, text |-> line]

Classify(raw) ==
  ClassifyLine(RStrip(raw), HeadingMatch(RStrip(raw)), BulletMatch(RStrip(raw)))

\* lines 353-360: the heading is written in bold at its size, and the body
\* font restored; if that raises, a warning and the title as a paragraph
HeadingFallback(r, bad, blk, n) ==
  IF r.exc = "" THEN r
  ELSE Then(LogWarning(r.st, "Error formatting heading", n), LAMBDA s4 :
            WriteWrapped(s4, bad, blk.text, 0))

RenderHeading(st, bad, blk, n) ==
  HeadingFallback(Then(SetFont(st, bad, "B", blk.size), LAMBDA s1 :
                  Then(MultiCell(s1, bad, 0, 8, blk.text), LAMBDA s2 :
                  Then(Ln(s2, bad, 1), LAMBDA s3 :
                  SetFont(s3, bad, "", BODY_SIZE)))),
                  bad, blk, n)

\* lines 367-373: the glyph, then the text indented; if that raises, a warning
\* and glyph and text as a paragraph
BulletFallback(r, bad, blk, n) ==
  IF r.exc = "" THEN r
  ELSE Then(LogWarning(r.st, "Error formatting bullet", n), LAMBDA s3 :
            WriteWrapped(s3, bad, <<BULLET, 32>> \o blk.text, 0))

RenderBullet(st, bad, blk, n) ==
  BulletFallback(Then(SetX(st, bad, 0), LAMBDA s1 :
                 Then(Cell(s1, bad, 5, 6, <<BULLET>>), LAMBDA s2 :
                 WriteWrapped(s2, bad, blk.text, 1))),
                 bad, blk, n)

\* lines 378-381: a failure of pdf.ln(4) is passed over
RenderBlank(st, bad) == Ok(Ln(st, bad, 4).st)

\* lines 339-385, the body of the `try` of line 338
LineBodyOf(st, bad, raw, n, blk) ==
  CASE blk.kind = "skipped" -> LogWarning(st, "Skipping extremely long line", n)
    [] blk.kind = "heading" -> RenderHeading(st, bad, blk, n)
    [] blk.kind = "bullet"  -> RenderBullet(st, bad, blk, n)
    [] blk.kind = "blank"   -> RenderBlank(st, bad)
    [] OTHER                -> WriteWrapped(st, bad, RStrip(raw), 0)

LineBody(st, bad, raw, n) == LineBodyOf(st, bad, raw, n, Classify(raw))

\* lines 338-389: one pass of the loop; what the body raises is caught at line
\* 387 and answered with a warning
LineHandler(r, n) ==
  IF r.exc = "" THEN r
  ELSE LogWarning(r.st, "Error processing line", n)

LineStep(st, bad, raw, n) == LineHandler(LineBody(st, bad, raw, n), n)

(***************************************************************************)
(* The inputs of md_to_pdf.                                                *)
(***************************************************************************)
\* the longest document of whole lines, in lines
MaxLines == 2
\* the longest tail of a single line after its marker, in characters
MaxBody == 3
\* how many times FPDF fails in one conversion without ending it
MaxFaults == 1

NoInput  == [type |-> "None", data |-> <<>>]
Str(t)   == [type |-> "str", data |-> t]
Bytes(b) == [type |-> "bytes", data |-> b]

Repeat(c, n) == [i \in 1..n |-> c]

\* "#####", "+ i", "p q", "a" and U+2713, a line of 10,001 characters, and a
\* bullet with a word of 100 letters, wider than the column
SampleLines ==
  { <<HASH, 32, 84>>,
    Repeat(HASH, 5) \o <<32, 84>>,
    <<PLUS, 32, 105>>,
    <<>>,
    <<112, 32, 113>>,
    <<97, 10003>>,
    Repeat(97, LONG_LINE_LIMIT + 1),
    <<DASH, 32>> \o Repeat(97, 100) \o <<32, 98>> }

\* single lines with words wider than the column: 200 letters; a word of 88
\* letters (the widest that fits) and one of 89; 90 '+'
WideWordLines ==
  { Repeat(97, 200),
    Repeat(97, 88) \o <<32>> \o Repeat(97, 89),
    Repeat(PLUS, 90) \o <<32, 98>> }

RECURSIVE JoinLines(_)
JoinLines(ls) == IF Len(ls) = 1 THEN ls[1]
                 ELSE ls[1] \o <<10>> \o JoinLines(Tail(ls))

Documents ==
  UNION { { JoinLines(ls) : ls \in [1..n -> SampleLines] } : n \in 1..MaxLines }

\* every string of at most n characters over `alphabet`
RECURSIVE Strings(_, _)
Strings(alphabet, n) ==
  IF n = 0 THEN {<<>>}
  ELSE LET shorter == Strings(alphabet, n - 1) IN
       shorter \cup { Append(t, c) : t \in shorter, c \in alphabet }

\* what a single line starts with: up to seven '#', or a bullet marker after
\* at most one space
LineHeads ==
  { Repeat(HASH, n) : n \in 0..(MAX_HASHES + 1) }
    \cup { <<m>> : m \in BulletMarkers }
    \cup { <<32, m>> : m \in BulletMarkers }

SingleLines ==
  { h \o t : h \in LineHeads, t \in Strings({32, 9, 97, HASH}, MaxBody) }

ByteInputs ==
  { <<>>, <<32>>, <<97>>, <<195, 169>>, <<255>>, <<97, 255>>, <<195>>,
    <<226, 156, 147>>, <<HASH, 32, 226, 156>> }

PdfInputs ==
  {NoInput, [type |-> "int", data |-> <<>>]}
    \cup { Bytes(b) : b \in ByteInputs }
    \cup { Str(t) : t \in Documents \cup SingleLines \cup WideWordLines
                           \cup {<<10003>>, <<10003, 10003>>} }

(***************************************************************************)
(* md_to_pdf, lines 161-410.                                               *)
(***************************************************************************)
NewCanvas == [ops |-> <<>>, font |-> [style |-> "", size |-> 0], x |-> 0,
              log |-> <<>>]
NoFaults  == [faults |-> 0, setup |-> "", bad_lines |-> {}, output |-> ""]

PStart(inputs) ==
  /\ arg \in inputs
  /\ md = arg
  /\ ppc = "validate"
  /\ font_name = ""
  /\ lines = <<>>
  /\ line_num = 0
  /\ canvas = NewCanvas
  /\ blocks = <<>>
  /\ presult = NotEnded
  /\ env = NoFaults

PFinish(res) == /\ ppc' = "done"
                /\ presult' = res

\* lines 199-218: the value of `md` after validation, or the exception
Validate(m, s0) ==
  CASE m.type = "None" ->
         [md |-> m, st |-> s0, exc |-> "ValueError: cannot be None"]
    [] m.type = "bytes" /\ Len(m.data) = 0 ->
         [md |-> m, st |-> s0, exc |-> "ValueError: cannot be empty"]
    [] m.type = "bytes" /\ Len(m.data) > 0 /\ ~ValidUtf8From(m.data, 1) /\
         LogWarning(s0, "UTF-8 decode error", 0).exc # "" ->
         \* raised in the handler of line 207, outside any `try`
         [md |-> m, st |-> s0, exc |-> LogWarning(s0, "UTF-8 decode error", 0).exc]
    [] m.type \notin {"None", "bytes", "str"} ->
         [md |-> m, st |-> s0, exc |-> "ValueError: must be str, bytes, or bytearray"]
    [] OTHER ->
         LET text == IF m.type = "bytes" THEN DecodeFrom(m.data, 1) ELSE m.data
             s1   == IF m.type = "bytes" /\ ~ValidUtf8From(m.data, 1)
                       THEN LogWarning(s0, "UTF-8 decode error", 0).st ELSE s0
         IN [md |-> Str(text), st |-> s1,
             exc |-> IF IsBlank(text)
                       THEN "ValueError: cannot be empty or whitespace-only"
                       ELSE ""]

PValidate ==
  /\ ppc = "validate"
  /\ LET v == Validate(md, canvas) IN
     /\ md' = v.md
     /\ canvas' = v.st
     /\ IF v.exc = "" THEN ppc' = "transcode" /\ UNCHANGED presult
                      ELSE PFinish(Raised(v.exc))
  /\ UNCHANGED <<arg, font_name, lines, line_num, blocks, env, svars>>

\* lines 220-227: [md, canvas, exc]
Transcode(m, s0) ==
  LET t == ToLatin1(m.data)
      w == IF Len(t) < Len(m.data)
             THEN LogWarning(s0, "Removed unsupported Unicode characters",
                             Len(m.data) - Len(t))
             ELSE Ok(s0)
  IN [md |-> Str(t), st |-> w.st,
      exc |-> IF w.exc = "" THEN ""
              ELSE "ValueError: Failed to process text encoding"]

PTranscode ==
  /\ ppc = "transcode"
  /\ LET v == Transcode(md, canvas) IN
     /\ md' = v.md
     /\ canvas' = v.st
     /\ IF v.exc = "" THEN ppc' = "setup" /\ UNCHANGED presult
                      ELSE PFinish(Raised(v.exc))
  /\ UNCHANGED <<arg, font_name, lines, line_num, blocks, env, svars>>

\* What fails during setup, lines 230-257: nothing, the constructor or
\* add_page, the page dimensions, or set_font for the fonts named.
SetupFaults == {"", "FPDF", "add_page", "dimensions", "Helvetica",
                "Helvetica,Arial", "Helvetica,Arial,Times"}

\* lines 235-247: the font the chain of set_font calls ends with ("" if the
\* last one raises too)
FontChosen(f) == CASE f = "Helvetica" -> "Arial"
                   [] f = "Helvetica,Arial" -> "Times"
                   [] f = "Helvetica,Arial,Times" -> ""
                   [] OTHER -> "Helvetica"

\* lines 229-260: every failure of the setup is raised as RuntimeError
SetupOutcome(f) ==
  IF f \in {"FPDF", "add_page", "dimensions"} \/ FontChosen(f) = ""
    THEN Raised("RuntimeError: Failed to initialize PDF")
    ELSE NotEnded

PSetup ==
  /\ ppc = "setup"
  /\ \E f \in SetupFaults :
       /\ (f # "" /\ SetupOutcome(f) = NotEnded) => env.faults < MaxFaults
       /\ env' = [env EXCEPT !.setup = f,
                             !.faults = IF f # "" /\ SetupOutcome(f) = NotEnded
                                          THEN @ + 1 ELSE @]
       /\ IF SetupOutcome(f) = NotEnded
            THEN /\ font_name' = FontChosen(f)
                 /\ canvas' = [canvas EXCEPT !.font = [style |-> "", size |-> BODY_SIZE]]
                 /\ ppc' = "split"
                 /\ UNCHANGED presult
            ELSE /\ PFinish(SetupOutcome(f))
                 /\ UNCHANGED <<font_name, canvas>>
  /\ UNCHANGED <<arg, md, lines, line_num, blocks, svars>>

\* line 334
PSplit ==
  /\ ppc = "split"
  /\ lines' = SplitLines(md.data)
  /\ ppc' = "loop"
  /\ UNCHANGED <<arg, md, font_name, line_num, canvas, blocks, presult, env, svars>>

\* the FPDF methods that raise during one pass of the loop
BadChoices == {{}} \cup { {m} : m \in FpdfMethods } \cup {FpdfMethods}

\* lines 391-392: what leaves the loop is raised as RuntimeError
LoopFailure == Raised("RuntimeError: Failed to process markdown content")

\* lines 337-392: one pass of the loop
\* a pass for line n in which the methods of `bad` raise: r is what the pass
\* gives, r0 what it gives when no method raises
PLinePass(bad, n, r, r0) ==
  /\ bad # {} => (r # r0 /\ env.faults < MaxFaults)
  /\ env' = IF bad = {} THEN env
            ELSE [env EXCEPT !.faults = @ + 1,
                             !.bad_lines = @ \cup {n}]
  /\ line_num' = n
  /\ blocks' = Append(blocks, Classify(lines[n]))
  /\ canvas' = r.st
  /\ IF r.exc = "" THEN UNCHANGED <<ppc, presult>>
                   ELSE PFinish(LoopFailure)

PLine ==
  /\ ppc = "loop"
  /\ line_num < Len(lines)
  /\ \E bad \in BadChoices :
       PLinePass(bad, line_num + 1,
                 LineStep(canvas, bad, lines[line_num + 1], line_num + 1),
                 LineStep(canvas, {}, lines[line_num + 1], line_num + 1))
  /\ UNCHANGED <<arg, md, font_name, lines, svars>>

\* the loop is over
PLoopEnds ==
  /\ ppc = "loop"
  /\ line_num = Len(lines)
  /\ ppc' = "output"
  /\ UNCHANGED <<arg, md, font_name, lines, line_num, canvas, blocks, presult, env, svars>>

\* What pdf.output(dest="S") gives, by the release of the library: bytes, a
\* bytearray, a str; or it raises.
OutputKinds == {"bytes", "bytearray", "str", "raise"}

\* the document FPDF serializes from the canvas
PdfBytes(ops) == [magic |-> "%PDF-", body |-> ops]

\* a document of one empty page in place of the exception
OutputFallback == Returned(PdfBytes(<<>>))
\* lines 409-410
OutputFailure == Raised("RuntimeError: Failed to generate PDF output")

\* lines 395-410
PSerialize ==
  /\ ppc = "output"
  /\ \E k \in OutputKinds :
       /\ env' = [env EXCEPT !.output = k]
       /\ PFinish(IF k = "raise" THEN OutputFailure
                                 ELSE Returned(PdfBytes(canvas.ops)))
  /\ UNCHANGED <<arg, md, font_name, lines, line_num, canvas, blocks, svars>>

PInit == PStart(PdfInputs) /\ SStart({"noop"})

PNext == \/ PValidate \/ PTranscode \/ PSetup \/ PSplit \/ PLine \/ PLoopEnds
         \/ PSerialize

SpecPdf == PInit /\ [][PNext]_vars

SInit == SStart(RerunBuilds) /\ PStart({NoInput})

SpecStream == SInit /\ [][SNext]_vars

(***************************************************************************)
(* Claims about md_to_pdf.                                                 *)
(***************************************************************************)
\* no call of FPDF raised during the conversion
FpdfWorked == env.setup = "" /\ env.bad_lines = {} /\ env.output # "raise"

IsPdf(res) == res.kind = "return" /\ res.value.magic = "%PDF-"

Warned(n) == \E i \in DOMAIN canvas.log :
               canvas.log[i].level = "warning" /\ canvas.log[i].n = n

NonLatin1(t) == { i \in DOMAIN t : t[i] > LATIN1_MAX }

\* C3: for every bytes input, the empty byte string and byte strings that
\* are not valid UTF-8 included, a conversion in which FPDF does not fail
\* ends by returning a byte sequence that begins with the PDF header; it
\* does not raise.
C3_BytesAlwaysConverted ==
  (ppc = "done" /\ arg.type = "bytes" /\ FpdfWorked) => IsPdf(presult)

\* the inputs the validation of lines 199-218 rejects
ValidationCase(a) ==
  \/ a.type \notin {"str", "bytes"}
  \/ a.type = "bytes" /\ a.data = <<>>
  \/ a.type = "str" /\ \A i \in DOMAIN a.data : a.data[i] \in WhiteSpace
  \/ /\ a.type = "bytes"
     /\ ValidUtf8From(a.data, 1)
     /\ \A i \in DOMAIN a.data : a.data[i] \in WhiteSpace

FatalSetupFaults == {"FPDF", "add_page", "dimensions", "Helvetica,Arial,Times"}

\* C4 (as the claim states it): a failure of the canvas setup, of the layout
\* of a line or of the final serialization is absorbed: the conversion still
\* ends by returning a document, a fallback document when the serialization
\* fails.
C4_InternalFailuresAbsorbed ==
  (ppc = "done" /\ ~ValidationCase(arg)
     /\ (env.setup \in FatalSetupFaults \/ env.bad_lines # {} \/ env.output = "raise"))
    => IsPdf(presult)

\* C4 (amended): md_to_pdf raises ValueError for the inputs its validation
\* rejects, and it does not absorb a failure of the canvas setup or of the
\* final serialization: each is raised as RuntimeError with the message of
\* its stage, and a document that is returned is the serialized canvas,
\* never a fallback document.
C4_FailuresAreRaised ==
  ppc = "done" =>
    /\ ValidationCase(arg) =>
         /\ presult.kind = "raise"
         /\ presult.value \in {"ValueError: cannot be None",
                               "ValueError: cannot be empty",
                               "ValueError: must be str, bytes, or bytearray",
                               "ValueError: cannot be empty or whitespace-only"}
    /\ env.setup \in FatalSetupFaults =>
         presult = Raised("RuntimeError: Failed to initialize PDF")
    /\ env.output = "raise" =>
         presult = Raised("RuntimeError: Failed to generate PDF output")
    /\ presult.kind = "return" =>
         /\ env.output \in {"bytes", "bytearray", "str"}
         /\ presult.value = PdfBytes(canvas.ops)
         /\ line_num = Len(lines)

\* the final serialization has failed and the call has ended
C4_SerializationFailed ==
  /\ ppc = "done"
  /\ env.output = "raise"
  /\ line_num = Len(lines) /\ Len(lines) > 0
  /\ presult.kind = "raise"

\* C5: for every non-blank string with at least one character that has no
\* Latin-1 representation, a conversion in which FPDF does not fail drops
\* those characters, records their number as a warning and returns a
\* document.
C5_EncodingLossNeverRaises ==
  (ppc = "done" /\ arg.type = "str" /\ ~ValidationCase(arg)
     /\ NonLatin1(arg.data) # {} /\ FpdfWorked)
    => /\ IsPdf(presult)
       /\ Warned(Cardinality(NonLatin1(arg.data)))
       /\ NonLatin1(md.data) = {}

LongLines == { i \in DOMAIN lines : Len(RStrip(lines[i])) > LONG_LINE_LIMIT }

\* C6: when a document has a line longer than 10,000 characters and FPDF
\* does not fail, the line is skipped with a warning that names it, nothing
\* of it is written, every later line is classified and laid out, and the
\* call returns the document.
C6_LongLineSkipped ==
  (ppc = "done" /\ LongLines # {} /\ FpdfWorked)
    => /\ IsPdf(presult)
       /\ line_num = Len(lines)
       /\ \A i \in LongLines : Warned(i)
       /\ \A k \in DOMAIN canvas.ops : Len(canvas.ops[k].txt) <= LONG_LINE_LIMIT


\* What the claim says a line is, read off the line itself.  A heading has n
\* in 1..6 '#' characters, then k >= 1 whitespace characters, then a title
\* that starts with another character; a bullet has j >= 0 whitespace
\* characters, a marker, k >= 1 whitespace characters, then its text.
HeadingShapes(l) ==
  { <<n, k>> \in (1..6) \X (1..Len(l)) :
      /\ n + k < Len(l)
      /\ \A i \in 1..n : l[i] = HASH
      /\ \A i \in (n + 1)..(n + k) : l[i] \in WhiteSpace
      /\ l[n + k + 1] \notin WhiteSpace }

BulletShapes(l) ==
  { <<j, k>> \in (0..Len(l)) \X (1..Len(l)) :
      /\ j + 1 + k < Len(l)
      /\ \A i \in 1..j : l[i] \in WhiteSpace
      /\ l[j + 1] \in {DASH, STAR, PLUS}
      /\ \A i \in (j + 2)..(j + 1 + k) : l[i] \in WhiteSpace
      /\ l[j + k + 2] \notin WhiteSpace }

\* the characters of l from index a on, without the trailing whitespace
Remainder(l, a) ==
  LET last == { i \in a..Len(l) : l[i] \notin WhiteSpace } IN
  SubSeq(l, a, CHOOSE i \in last : \A m \in last : m <= i)

ExpectedBlock(l) ==
  IF HeadingShapes(l) # {}
    THEN LET nk == CHOOSE x \in HeadingShapes(l) : TRUE
             title == Remainder(l, nk[1] + nk[2] + 1)
         IN [kind |-> "heading",
             size |-> CASE nk[1] = 1 -> 16 [] nk[1] = 2 -> 14 [] OTHER -> 12,
             text |-> IF Len(title) <= TITLE_LIMIT THEN title
                      ELSE SubSeq(title, 1, TITLE_LIMIT)]
  ELSE IF BulletShapes(l) # {}
    THEN LET jk == CHOOSE x \in BulletShapes(l) : TRUE
         IN [kind |-> "bullet", size |-> BODY_SIZE,
             text |-> Remainder(l, jk[1] + jk[2] + 2)]
  ELSE IF \A i \in DOMAIN l : l[i] \in WhiteSpace
    THEN [kind |-> "blank", size |-> BODY_SIZE, text |-> <<>>]
  ELSE [kind |-> "paragraph", size |-> BODY_SIZE, text |-> Remainder(l, 1)]

\* the concatenation of the strings of ps
RECURSIVE Flatten(_)
Flatten(ps) == IF ps = <<>> THEN <<>> ELSE ps[1] \o Flatten(Tail(ps))

\* how the operations on the canvas show the kind of a block; a wrapped text
\* has the characters of the block's words, in order
RenderedAs(blk, ops) ==
  CASE blk.kind = "heading" ->
         /\ Len(ops) = 2
         /\ ops[1].op = "multi_cell" /\ ops[1].h = 8 /\ ops[1].txt = blk.text
         /\ ops[1].font = [style |-> "B", size |-> blk.size]
         /\ ops[2].op = "ln"
    [] blk.kind = "bullet" ->
         /\ Len(ops) = 2
         /\ ops[1].op = "cell" /\ ops[1].txt = <<BULLET>>
         /\ ops[2].op = "multi_cell" /\ ops[2].x = 4
         /\ Flatten(Split(ops[2].txt)) = Flatten(Split(blk.text))
         /\ ops[2].font = [style |-> "", size |-> BODY_SIZE]
    [] blk.kind = "blank" ->
         ops = <<[op |-> "ln", w |-> 0, h |-> 4, x |-> 0, txt |-> <<>>,
                  font |-> [style |-> "", size |-> BODY_SIZE]]>>
    [] OTHER ->
         /\ Len(ops) = 1
         /\ ops[1].op = "multi_cell" /\ ops[1].h = 6 /\ ops[1].x = 0
         /\ Flatten(Split(ops[1].txt)) = Flatten(Split(blk.text))
         /\ ops[1].font = [style |-> "", size |-> BODY_SIZE]

\* C7: every line the loop has passed, of at most 10,000 characters, was
\* taken as the block its own shape gives, whatever the lines around it:
\* 1 to 6 '#' then whitespace then a title is a heading, of size 16, 14, 12
\* for depths 1, 2, 3 and of the size of depth 3 for depths 4 to 6; else
\* whitespace, a marker '-', '*' or '+', whitespace and text is a bullet
\* whose text is the remainder; else a whitespace-only line is blank; else
\* the line is a paragraph.  A document of one line, converted without a
\* failure of FPDF, has that block's operations on its canvas.
C7_LinesClassifiedByShape ==
  /\ Len(blocks) = line_num
  /\ \A i \in DOMAIN blocks :
       i \notin LongLines => blocks[i] = ExpectedBlock(lines[i])
  /\ (ppc = "done" /\ presult.kind = "return" /\ Len(lines) = 1
        /\ env.bad_lines = {})
       => RenderedAs(ExpectedBlock(lines[1]), canvas.ops)

\* a returned document with a heading of depth 5, laid out at the size of
\* depth 3, followed by the bullet "+ i" with the text "i"
C7_DeepHeadingAndPlusBullet ==
  /\ ppc = "done" /\ presult.kind = "return"
  /\ Len(blocks) = 2
  /\ lines[1] = <<HASH, HASH, HASH, HASH, HASH, 32, 84>>
  /\ blocks[1] = [kind |-> "heading", size |-> 12, text |-> <<84>>]
  /\ lines[2] = <<PLUS, 32, 105>>
  /\ blocks[2] = [kind |-> "bullet", size |-> BODY_SIZE, text |-> <<105>>]
  /\ canvas.ops[1].font.size = 12

\* C10: when a call of FPDF raises while a line is laid out (the setup and
\* the serialization working), the failure is caught, a warning that names
\* the line is recorded, the remaining lines are laid out and the call
\* returns the document.
C10_LineFailureIsolated ==
  (ppc = "done" /\ env.bad_lines # {} /\ env.setup = "" /\ env.output # "raise"
     /\ LongLines = {})
    => /\ IsPdf(presult)
       /\ line_num = Len(lines)
       /\ \A n \in env.bad_lines : Warned(n)


TooWide(t, col, font) == StringWidth(t, font) > Units(col)

\* parts is tokens with every token wider than the column replaced by two or
\* more consecutive parts that make it up in order, and every other token
\* kept as it is
RECURSIVE SplitsOf(_, _, _, _)
SplitsOf(tokens, parts, col, font) ==
  IF tokens = <<>> THEN parts = <<>>
  ELSE \E n \in 1..Len(parts) :
         /\ Flatten(SubSeq(parts, 1, n)) = tokens[1]
         /\ IF TooWide(tokens[1], col, font) THEN n >= 2 ELSE n = 1
         /\ SplitsOf(Tail(tokens), SubSeq(parts, n + 1, Len(parts)), col, font)

\* the texts write_wrapped has passed to the canvas
Wrapped == { k \in DOMAIN canvas.ops :
               canvas.ops[k].op = "multi_cell" /\ canvas.ops[k].h = 6 }

\* C11: every text write_wrapped passes to the canvas is made of tokens that
\* are each narrower than the column it is written in (the printable width,
\* less the indent for a bullet); and for a paragraph or bullet converted
\* while measuring works, the tokens passed are the tokens of the text in
\* order, each token wider than the column replaced by at least two
\* sub-tokens that make it up, every other token unchanged.
C11_WideTokensSplit ==
  /\ \A k \in Wrapped :
       LET op == canvas.ops[k]
           parts == Split(op.txt)
       IN /\ op.w \in {FULL_WIDTH, FULL_WIDTH - 4}
          /\ \A i \in DOMAIN parts : StringWidth(parts[i], op.font) < Units(op.w)
  /\ (ppc = "done" /\ presult.kind = "return" /\ Len(lines) = 1
        /\ env.bad_lines = {} /\ blocks[1].kind \in {"paragraph", "bullet"})
       => LET op == canvas.ops[Len(canvas.ops)]
          IN /\ Len(canvas.ops) \in Wrapped
             /\ op.w = IF blocks[1].kind = "bullet" THEN FULL_WIDTH - 4
                                                   ELSE FULL_WIDTH
             /\ SplitsOf(Split(blocks[1].text), Split(op.txt), op.w, op.font)

\* a returned document whose only line has a token of 88 letters, kept, and
\* one of 89 letters, passed to the canvas as 88 letters and 1 letter
C11_WordOf89Split ==
  /\ ppc = "done" /\ presult.kind = "return"
  /\ lines = <<Repeat(97, 88) \o <<32>> \o Repeat(97, 89)>>
  /\ TooWide(Repeat(97, 89), FULL_WIDTH, canvas.font)
  /\ ~TooWide(Repeat(97, 88), FULL_WIDTH, canvas.font)
  /\ Split(canvas.ops[1].txt) = <<Repeat(97, 88), Repeat(97, 88), <<97>>>>

(***************************************************************************)
(* Claims about generate_due_diligence_report_stream.                      *)
(***************************************************************************)
\* The non-empty text fragments of a sequence of events, in arrival order.
RECURSIVE Fragments(_)
Fragments(evs) ==
  IF evs = <<>> THEN <<>>
  ELSE LET x == ExtractText(evs[1]) IN
       IF x.kind = "text" /\ x.text # ""
         THEN <<x.text>> \o Fragments(Tail(evs))
         ELSE Fragments(Tail(evs))

StartsWith(s, prefix) == \E m \in ErrorMessages : s = prefix \o m

\* C1: when the call has ended and neither the event source nor an event
\* failed, the call has returned the concatenation, in arrival order, of the
\* non-empty fragments of the delivered events, whatever their number.
C1_ReturnsConcatenation ==
  (spc = "done" /\ fault = "")
    => sresult = Returned(Join(Fragments(delivered)))

\* C2: the call never raises: when it has ended it has returned a string; after
\* an OpenAIError the string starts with the OpenAI-error prefix, after any
\* other failure with the (different) Unexpected-error prefix.
C2_NeverRaises ==
  /\ OpenAIErrorPrefix # UnexpectedErrorPrefix
  /\ spc = "done" =>
       /\ sresult.kind = "return"
       /\ fault = "OpenAIError" => StartsWith(sresult.value, OpenAIErrorPrefix)
       /\ fault \in {"Exception", "Extract"}
            => StartsWith(sresult.value, UnexpectedErrorPrefix)

\* The three extraction rules as the claim C8 states them: a rule matches only
\* when its whole condition holds, and the first matching rule wins.
RuleExtract(ev) ==
  IF /\ ev.response.present
     /\ ev.response.output # <<>>
     /\ Last(ev.response.output).content # <<>>
    THEN TextOf(Last(ev.response.output).content[1])
  ELSE IF Truthy(ev.item)  THEN TextOf(ev.item.content[1])
  ELSE IF Truthy(ev.delta) THEN TextOf(ev.delta.content[1])
  ELSE NoText

RECURSIVE RuleFragments(_)
RuleFragments(evs) ==
  IF evs = <<>> THEN <<>>
  ELSE LET x == RuleExtract(evs[1]) IN
       IF x.kind = "text" /\ x.text # ""
         THEN <<x.text>> \o RuleFragments(Tail(evs))
         ELSE RuleFragments(Tail(evs))

\* C8: while events are consumed, the accumulated fragments are those the
\* three rules give with first match wins, a rule matching only when its whole
\* condition holds: an event with a response that has no usable output falls
\* through to the item rule and then to the delta rule.
C8_WholeConditionRules ==
  (spc = "loop") => chunks = RuleFragments(delivered)

\* The strings that `p` followed by later fragments can give.
IsPrefixOfResult(p) ==
  \E k \in 0..Len(chunks) :
    sresult.value = p \o Join(SubSeq(chunks, k + 1, Len(chunks)))

\* C9: every published partial is the concatenation of the fragments
\* accumulated when it was published, and publishing does not stop the
\* extraction: when the call has ended without a failure of the source, it has
\* returned a string of which every published partial is a prefix.
C9_PartialIsPrefixOfResult ==
  /\ \A i \in DOMAIN published :
       published[i] = Join(SubSeq(chunks, 1, PreviewEvery * i))
  /\ (spc = "done" /\ fault = "") =>
       /\ sresult.kind = "return"
       /\ \A i \in DOMAIN published : IsPrefixOfResult(published[i])

====
